---- MODULE Spec2Model ----
(***************************************************************************)
(* A model of split.py: the cue sheet parser (parse_cue) and the three     *)
(* file resolution procedures (determine_cue, determine_wav,               *)
(* determine_cover).                                                       *)
(*                                                                         *)
(* Python strings are TLA+ strings, read character by character with       *)
(* SubSeq/Len.  An Optional value is a tuple: <<>> is None, <<x>> is x.    *)
(* Python dicts live in a heap of records addressed by references, so that *)
(* aliasing between the disc record and the track records is expressible.  *)
(***************************************************************************)
EXTENDS Integers, Sequences, FiniteSets, TLC

VARIABLES
    \* ---- parse_cue ----
    pc,             \* "parsing" | "done" (returned) | the assertion that failed:
                    \* "failed_line" | "failed_track" | "failed_title"
    heap,           \* reference -> dict (a function from keys to values)
    disc_dict,      \* reference of the disc record
    track_list,     \* sequence of references of the track records
    current_dict,   \* reference of the accumulation target
    line,           \* the raw line taken by the last loop iteration
    nlines,         \* number of lines consumed so far
    override,       \* FLAGS.disc_performer_override (Optional string)
    \* ---- determine_cue / determine_wav / determine_cover ----
    rpc,            \* "idle" | "call" | "done"
    proc,           \* the procedure called: "cue" | "wav" | "cover"
    fs,             \* directory -> set of entries [name, file]
    rootdir,        \* Optional directory
    cuedir,         \* cue_path.parent
    cwd,            \* the working directory
    flag,           \* FLAGS.cue / FLAGS.wav / FLAGS.cover (Optional string)
    cue_dict,       \* the parsed disc record, as far as determine_wav reads it
    order,          \* directory -> the order in which iterdir() enumerated it
    result          \* what the call did: [out, scans, probes]

pvars == <<pc, heap, disc_dict, track_list, current_dict, line, nlines, override>>
rvars == <<rpc, proc, fs, rootdir, cuedir, cwd, flag, cue_dict, order, result>>
vars == <<pvars, rvars>>

\* Bound: the number of lines of a sheet.
MaxLines == 4

None == <<>>
Some(x) == <<x>>

(***************************************************************************)
(* Characters and strings                                                  *)
(***************************************************************************)
Upper == {"A", "B", "C", "D", "E", "F", "G", "H", "I", "J", "K", "L", "M",
          "N", "O", "P", "Q", "R", "S", "T", "U", "V", "W", "X", "Y", "Z"}
Digit == {"0", "1", "2", "3", "4", "5", "6", "7", "8", "9"}
Space == {" ", "\t"}

Ch(s, i) == SubSeq(s, i, i)

SetMin(S) == CHOOSE x \in S : \A y \in S : x <= y
SetMax(S) == CHOOSE x \in S : \A y \in S : x >= y

\* s[:n]
Prefix(s, n) == SubSeq(s, 1, IF n < Len(s) THEN n ELSE Len(s))

\* str.strip()
Strip(s) ==
    LET keep == {i \in 1..Len(s) : Ch(s, i) \notin Space}
    IN  IF keep = {} THEN "" ELSE SubSeq(s, SetMin(keep), SetMax(keep))

\* The end of the longest run of characters of class C that starts at
\* position i of s (i - 1 when the run is empty).
RunEnd(s, i, C) ==
    LET stop == {j \in i..Len(s) : Ch(s, j) \notin C}
    IN  IF stop = {} THEN Len(s) ELSE SetMin(stop) - 1

DigitValue(c) ==
    CASE c = "0" -> 0 [] c = "1" -> 1 [] c = "2" -> 2 [] c = "3" -> 3
      [] c = "4" -> 4 [] c = "5" -> 5 [] c = "6" -> 6 [] c = "7" -> 7
      [] c = "8" -> 8 [] c = "9" -> 9

\* int(s) for a string of decimal digits
RECURSIVE ToInt(_)
ToInt(s) ==
    IF Len(s) = 0 THEN 0
    ELSE 10 * ToInt(SubSeq(s, 1, Len(s) - 1)) + DigitValue(Ch(s, Len(s)))

(***************************************************************************)
(* parse_cue.unquote                                                       *)
(***************************************************************************)
IsQuoted(s_stripped) ==
    /\ Len(s_stripped) >= 2
    /\ Ch(s_stripped, 1) = "\""
    /\ Ch(s_stripped, Len(s_stripped)) = "\""

Interior(s_stripped) == SubSeq(s_stripped, 2, Len(s_stripped) - 1)

unquote_AlwaysStrip(s, strip) ==
    LET s_stripped == Strip(s)
    IN  IF IsQuoted(s_stripped) THEN Strip(Interior(s_stripped)) ELSE s_stripped

unquote(s, strip) ==
    LET s_stripped == Strip(s)
    IN  IF IsQuoted(s_stripped)
        THEN IF strip THEN Strip(Interior(s_stripped)) ELSE Interior(s_stripped)
        ELSE IF strip THEN s_stripped ELSE s

(***************************************************************************)
(* The five line grammars.  Each gives None or Some(<<m[1], m[2]>>).       *)
(***************************************************************************)
\* "^(REM [A-Z_]+) (.+)$"
MatchREM(l) ==
    LET e == RunEnd(l, 5, Upper \cup {"_"})
    IN  IF /\ Prefix(l, 4) = "REM "
           /\ e >= 5
           /\ Len(l) >= e + 2
           /\ Ch(l, e + 1) = " "
        THEN Some(<<SubSeq(l, 1, e), SubSeq(l, e + 2, Len(l))>>)
        ELSE None

\* "^(FILE) (.+) [A-Z]{3,4}$": the greedy (.+) leaves the shortest type tag.
FileTag(l, t) ==
    /\ Len(l) >= 5 + 1 + 1 + t
    /\ Ch(l, Len(l) - t) = " "
    /\ \A i \in (Len(l) - t + 1)..Len(l) : Ch(l, i) \in Upper

MatchFILE(l) ==
    IF Prefix(l, 5) # "FILE " THEN None
    ELSE IF FileTag(l, 3) THEN Some(<<"FILE", SubSeq(l, 6, Len(l) - 4)>>)
    ELSE IF FileTag(l, 4) THEN Some(<<"FILE", SubSeq(l, 6, Len(l) - 5)>>)
    ELSE None

\* "^(TRACK) ([0-9]+) .+$": a TRACK grammar that accepts any track type
MatchTRACK_AnyType(l) ==
    LET e == RunEnd(l, 7, Digit)
    IN  IF /\ Prefix(l, 6) = "TRACK "
           /\ e >= 7
           /\ Len(l) >= e + 2
           /\ Ch(l, e + 1) = " "
        THEN Some(<<"TRACK", SubSeq(l, 7, e)>>)
        ELSE None

\* "^(TRACK) ([0-9]+) AUDIO$"
MatchTRACK(l) ==
    LET e == RunEnd(l, 7, Digit)
    IN  IF /\ Prefix(l, 6) = "TRACK "
           /\ e >= 7
           /\ SubSeq(l, e + 1, Len(l)) = " AUDIO"
        THEN Some(<<"TRACK", SubSeq(l, 7, e)>>)
        ELSE None

\* "^(INDEX) ([0-9]+) ([0-9:]{8,11})$"
MatchINDEX(l) ==
    LET e == RunEnd(l, 7, Digit)
    IN  IF /\ Prefix(l, 6) = "INDEX "
           /\ e >= 7
           /\ Len(l) >= e + 2
           /\ Ch(l, e + 1) = " "
           /\ Len(l) - (e + 1) \in 8..11
           /\ \A i \in (e + 2)..Len(l) : Ch(l, i) \in Digit \cup {":"}
        THEN Some(<<"INDEX", SubSeq(l, 7, e)>>)
        ELSE None

\* The generic grammar with the key class of the REM grammar, [A-Z_]+
MatchGeneric_Underscore(l) ==
    LET e == RunEnd(l, 1, Upper \cup {"_"})
    IN  IF /\ e >= 1
           /\ Len(l) >= e + 2
           /\ Ch(l, e + 1) = " "
        THEN Some(<<SubSeq(l, 1, e), SubSeq(l, e + 2, Len(l))>>)
        ELSE None

\* "^([A-Z]+) (.+)$"
MatchGeneric(l) ==
    LET e == RunEnd(l, 1, Upper)
    IN  IF /\ e >= 1
           /\ Len(l) >= e + 2
           /\ Ch(l, e + 1) = " "
        THEN Some(<<SubSeq(l, 1, e), SubSeq(l, e + 2, Len(l))>>)
        ELSE None

Match_NoIndexBranch(l) ==
    IF Prefix(l, 4) = "REM " THEN MatchREM(l)
    ELSE IF Prefix(l, 5) = "FILE " THEN MatchFILE(l)
    ELSE IF Prefix(l, 6) = "TRACK " THEN MatchTRACK(l)
    ELSE MatchGeneric(l)

\* The regex chosen by the literal prefix, matched against the trimmed line.
Match(l) ==
    IF Prefix(l, 4) = "REM " THEN MatchREM(l)
    ELSE IF Prefix(l, 5) = "FILE " THEN MatchFILE(l)
    ELSE IF Prefix(l, 6) = "TRACK " THEN MatchTRACK(l)
    ELSE IF Prefix(l, 6) = "INDEX " THEN MatchINDEX(l)
    ELSE MatchGeneric(l)

Key(l) == Match(l)[1][1]
Group2(l) == Match(l)[1][2]

OverrideApplies_AnyLevel(key, tracks, ovr) ==
    key = "PERFORMER" /\ ovr # None

\* val after unquoting and after the disc-level performer override
OverrideApplies(key, tracks, ovr) ==
    key = "PERFORMER" /\ Len(tracks) = 0 /\ ovr # None

Val(l, tracks, ovr) ==
    IF OverrideApplies(Key(l), tracks, ovr) THEN ovr[1]
    ELSE unquote(Group2(l), TRUE)

(***************************************************************************)
(* Dicts                                                                   *)
(***************************************************************************)
EmptyDict == <<>>

DictSet(d, k, v) == [x \in DOMAIN d \cup {k} |-> IF x = k THEN v ELSE d[x]]
DictDel(d, k) == [x \in DOMAIN d \ {k} |-> d[x]]
Has(d, k) == k \in DOMAIN d

\* heap with the record at reference r replaced by d
HeapPut(h, r, d) == [x \in DOMAIN h \cup {r} |-> IF x = r THEN d ELSE h[x]]

(***************************************************************************)
(* parse_cue: the line loop                                                *)
(***************************************************************************)
\* The lines a sheet is made of (raw, before line.strip()).
SheetLines == {
    "PERFORMER \"A\"",
    "PERFORMER B",
    "TITLE \"S \"",
    "  TITLE t",
    "TITLE \" \"",
    "TRACK 01 AUDIO",
    "TRACK 02 AUDIO",
    "FILE \"a.wav\" WAVE",
    "REM DATE 1",
    "INDEX 01 00:00:00",
    "",
    "TRACK 01 MODE1",
    "title x",
    "INDEX 1 0:0",
    "PERFORMER \"\"",
    "TRACK_LIST x",
    "FILE a.wav",
    "FILE \"\" WAVE" }

\* FLAGS.disc_performer_override
Overrides == {None, Some("Z"), Some("")}

TrackNumberOk_Increasing(track_no, tracks) == track_no > Len(tracks)

\* assert track_no == len(track_list) + 1
TrackNumberOk(track_no, tracks) == track_no = Len(tracks) + 1

NewTrackDict_KeepTitle(d) == d

\* disc_dict.copy() followed by the removal of TITLE
NewTrackDict(d) == IF Has(d, "TITLE") THEN DictDel(d, "TITLE") ELSE d

NewRef_Alias(h, disc) == disc

\* The reference of the object a dict.copy() creates: a fresh one.
NewRef(h, disc) == SetMax(DOMAIN h) + 1

\* for t in track_list: assert "TITLE" in t
AllTitled(h, tracks) == \A i \in 1..Len(tracks) : Has(h[tracks[i]], "TITLE")

Resolver0 ==
    /\ rpc = "idle" /\ proc = "" /\ fs = <<>> /\ rootdir = None /\ cuedir = ""
    /\ cwd = "" /\ flag = None /\ cue_dict = <<>> /\ order = <<>> /\ result = <<>>

Init ==
    /\ pc = "parsing"
    /\ disc_dict = 0
    /\ heap = [r \in {0} |-> EmptyDict]
    /\ track_list = <<>>
    /\ current_dict = 0
    /\ line = ""
    /\ nlines = 0
    /\ override \in Overrides
    /\ Resolver0

\* One iteration of "for line in cue_content.split('\n')" takes a line.
Take(raw) ==
    /\ pc = "parsing"
    /\ nlines < MaxLines
    /\ line' = raw
    /\ nlines' = nlines + 1
    /\ UNCHANGED <<override, disc_dict, rvars>>

Matched(raw) == Len(Strip(raw)) > 0 /\ Match(Strip(raw)) # None

Stored_Always(raw) == Matched(raw)

Stored(raw) == Matched(raw) /\ Len(Val(Strip(raw), track_list, override)) > 0

\* if len(line) <= 0: continue
BlankLine(raw) ==
    /\ Take(raw)
    /\ Len(Strip(raw)) <= 0
    /\ UNCHANGED <<pc, heap, track_list, current_dict>>

\* assert ... m is not None, "Line parse failed"
RejectLine(raw) ==
    /\ Take(raw)
    /\ Len(Strip(raw)) > 0
    /\ Match(Strip(raw)) = None
    /\ pc' = "failed_line"
    /\ UNCHANGED <<heap, track_list, current_dict>>

\* if len(val) <= 0: continue
SkipEmpty(raw) ==
    /\ Take(raw)
    /\ Matched(raw)
    /\ ~Stored(raw)
    /\ UNCHANGED <<pc, heap, track_list, current_dict>>

\* if key == "INDEX": continue
IndexLine(raw) ==
    /\ Take(raw)
    /\ Stored(raw)
    /\ Key(Strip(raw)) = "INDEX"
    /\ UNCHANGED <<pc, heap, track_list, current_dict>>

\* A TRACK line that appends the new record but leaves the target as it was
TrackLine_KeepTarget(raw) ==
    /\ Take(raw)
    /\ Stored(raw)
    /\ Key(Strip(raw)) = "TRACK"
    /\ TrackNumberOk(ToInt(Val(Strip(raw), track_list, override)), track_list)
    /\ LET track_dict == NewRef(heap, disc_dict)
       IN  /\ heap' = HeapPut(heap, track_dict, NewTrackDict(heap[disc_dict]))
           /\ track_list' = Append(track_list, track_dict)
    /\ UNCHANGED <<pc, current_dict>>

\* elif key == "TRACK": a new track record becomes the target
TrackLine(raw) ==
    /\ Take(raw)
    /\ Stored(raw)
    /\ Key(Strip(raw)) = "TRACK"
    /\ TrackNumberOk(ToInt(Val(Strip(raw), track_list, override)), track_list)
    /\ LET track_dict == NewRef(heap, disc_dict)
       IN  /\ heap' = HeapPut(heap, track_dict, NewTrackDict(heap[disc_dict]))
           /\ current_dict' = track_dict
           /\ track_list' = Append(track_list, track_dict)
    /\ UNCHANGED pc

\* elif key == "TRACK": the assertion on the track number fails
TrackOutOfSequence(raw) ==
    /\ Take(raw)
    /\ Stored(raw)
    /\ Key(Strip(raw)) = "TRACK"
    /\ ~TrackNumberOk(ToInt(Val(Strip(raw), track_list, override)), track_list)
    /\ pc' = "failed_track"
    /\ UNCHANGED <<heap, track_list, current_dict>>

\* A TITLE line that writes TITLE and leaves TITLE_RAW as it was
TitleLine_TitleOnly(raw) ==
    /\ Take(raw)
    /\ Stored(raw)
    /\ Key(Strip(raw)) = "TITLE"
    /\ heap' = HeapPut(heap, current_dict,
                  DictSet(heap[current_dict], "TITLE",
                          Val(Strip(raw), track_list, override)))
    /\ UNCHANGED <<pc, track_list, current_dict>>

\* elif key == "TITLE": TITLE and TITLE_RAW go to the target
TitleLine(raw) ==
    /\ Take(raw)
    /\ Stored(raw)
    /\ Key(Strip(raw)) = "TITLE"
    /\ heap' = HeapPut(heap, current_dict,
                  DictSet(DictSet(heap[current_dict], "TITLE",
                                  Val(Strip(raw), track_list, override)),
                          "TITLE_RAW", unquote(Group2(Strip(raw)), FALSE)))
    /\ UNCHANGED <<pc, track_list, current_dict>>

\* else: current_dict[key] = val
StoreLine(raw) ==
    /\ Take(raw)
    /\ Stored(raw)
    /\ Key(Strip(raw)) \notin {"INDEX", "TRACK", "TITLE"}
    /\ heap' = HeapPut(heap, current_dict,
                  DictSet(heap[current_dict], Key(Strip(raw)),
                          Val(Strip(raw), track_list, override)))
    /\ UNCHANGED <<pc, track_list, current_dict>>

\* The text is exhausted and every track has a TITLE: the result is returned.
Finalize ==
    /\ pc = "parsing"
    /\ AllTitled(heap, track_list)
    /\ heap' = HeapPut(heap, disc_dict,
                  DictSet(heap[disc_dict], "TRACK_LIST", track_list))
    /\ pc' = "done"
    /\ UNCHANGED <<disc_dict, track_list, current_dict, line, nlines, override, rvars>>

\* The text is exhausted and some track has no TITLE: the assertion fails.
FinalizeFail ==
    /\ pc = "parsing"
    /\ ~AllTitled(heap, track_list)
    /\ pc' = "failed_title"
    /\ UNCHANGED <<heap, disc_dict, track_list, current_dict, line, nlines, override, rvars>>

Next ==
    \/ \E raw \in SheetLines :
          \/ BlankLine(raw)
          \/ RejectLine(raw)
          \/ SkipEmpty(raw)
          \/ IndexLine(raw)
          \/ TrackLine(raw)
          \/ TrackOutOfSequence(raw)
          \/ TitleLine(raw)
          \/ StoreLine(raw)
    \/ Finalize
    \/ FinalizeFail

Spec == Init /\ [][Next]_vars

(***************************************************************************)
(* Paths and directory listings                                            *)
(***************************************************************************)
UpperChars == "ABCDEFGHIJKLMNOPQRSTUVWXYZ"
LowerChars == "abcdefghijklmnopqrstuvwxyz"

LowerCh(c) ==
    IF c \in Upper
    THEN Ch(LowerChars, CHOOSE i \in 1..Len(UpperChars) : Ch(UpperChars, i) = c)
    ELSE c

\* str.lower()
RECURSIVE Lower(_)
Lower(s) == IF Len(s) = 0 THEN "" ELSE LowerCh(Ch(s, 1)) \o Lower(SubSeq(s, 2, Len(s)))

\* name.rfind('.'), 0 when there is no dot (positions count from 1)
LastDot(name) ==
    LET dots == {i \in 1..Len(name) : Ch(name, i) = "."}
    IN  IF dots = {} THEN 0 ELSE SetMax(dots)

\* PurePath.suffix: from the last dot, unless the dot is first or last
Suffix(name) ==
    IF 1 < LastDot(name) /\ LastDot(name) < Len(name)
    THEN SubSeq(name, LastDot(name), Len(name))
    ELSE ""

\* PurePath.stem
Stem(name) ==
    IF 1 < LastDot(name) /\ LastDot(name) < Len(name)
    THEN SubSeq(name, 1, LastDot(name) - 1)
    ELSE name

\* A snapshot F of the file system is a set of entries [dir, name, file];
\* file tells a regular file from a directory.
Entry(d, n, f) == [dir |-> d, name |-> n, file |-> f]

\* (dir / name).is_file()
IsFile(F, d, n) == \E e \in F : e.dir = d /\ e.name = n /\ e.file

Listing(F, d) == {e \in F : e.dir = d}

\* The orders in which iterdir() may enumerate a set of entries
Orders(S) ==
    {o \in [1..Cardinality(S) -> S] : \A i, j \in 1..Cardinality(S) : o[i] = o[j] => i = j}

Range(seq) == {seq[i] : i \in 1..Len(seq)}

\* A result of a call: what it returned or raised, the directories it
\* enumerated, and the number of is_file() calls it made.
Res(out, scans, probes) == [out |-> out, scans |-> scans, probes |-> probes]
PathOut(d, n) == <<"path", d, n>>
NoneOut == <<"None">>
Raise(e) == <<"raise", e>>
IsPath(out) == out[1] = "path"
IsRaise(out) == out[1] = "raise"

(***************************************************************************)
(* determine_cue                                                           *)
(***************************************************************************)
IsCue(x) == x.file /\ Lower(Suffix(x.name)) = ".cue"

determine_cue(root, flg, wd, F, ord) ==
    IF flg = None
    THEN IF root = None
         THEN Res(Raise("AssertionError"), <<>>, 0)
         ELSE LET cues == SelectSeq(ord[root[1]], IsCue)
              IN  IF Len(cues) >= 1
                  THEN Res(PathOut(root[1], cues[1].name), <<root[1]>>, Len(ord[root[1]]))
                  ELSE Res(Raise("AssertionError"), <<root[1]>>, Len(ord[root[1]]))
    ELSE IF root # None
    THEN IF IsFile(F, root[1], flg[1])
         THEN Res(PathOut(root[1], flg[1]), <<>>, 1)
         ELSE Res(Raise("AssertionError"), <<>>, 1)
    ELSE IF IsFile(F, wd, flg[1])
         THEN Res(PathOut(wd, flg[1]), <<>>, 1)
         ELSE Res(Raise("AssertionError"), <<>>, 1)

(***************************************************************************)
(* determine_wav                                                           *)
(***************************************************************************)
AUDIO_SUFFIX == {".wav", ".ape", ".flac", ".tta"}

IsAudio(x) == x.file /\ Lower(Suffix(x.name)) \in AUDIO_SUFFIX

\* The directories an explicit argument is resolved against, in order
ExplicitDirs_PwdFirst(root, cue_d, wd) == <<wd>> \o root \o <<cue_d>>

ExplicitDirs(root, cue_d, wd) == root \o <<wd, cue_d>>

\* The first directory of dirs in which name is a file, with the number of
\* is_file() calls made; <<>> when there is none.
RECURSIVE FirstHit(_, _, _, _)
FirstHit(F, dirs, n, probes) ==
    IF Len(dirs) = 0 THEN Res(None, <<>>, probes)
    ELSE IF IsFile(F, dirs[1], n) THEN Res(Some(dirs[1]), <<>>, probes + 1)
    ELSE FirstHit(F, Tail(dirs), n, probes + 1)

\* What a scan's list of audio files decides: raise if several, return it if
\* one, go on (None) if none.
PickAudio_First(wavs) ==
    IF Len(wavs) >= 1 THEN Some(PathOut(wavs[1].dir, wavs[1].name)) ELSE None

PickAudio(wavs) ==
    IF Len(wavs) > 1 THEN Some(Raise("TypeError"))
    ELSE IF Len(wavs) = 1 THEN Some(PathOut(wavs[1].dir, wavs[1].name))
    ELSE None

\* The directories to scan, in order
ScanDirs(root, cue_d) == root \o <<cue_d>>

RECURSIVE ScanAudio(_, _, _, _)
ScanAudio(ord, dirs, scans, probes) ==
    IF Len(dirs) = 0 THEN Res(Raise("TypeError"), scans, probes)
    ELSE LET pick == PickAudio(SelectSeq(ord[dirs[1]], IsAudio))
             sc == Append(scans, dirs[1])
             pr == probes + Len(ord[dirs[1]])
         IN  IF pick # None THEN Res(pick[1], sc, pr)
             ELSE ScanAudio(ord, Tail(dirs), sc, pr)

determine_wav(root, cue_d, cd, flg, wd, F, ord) ==
    IF flg # None
    THEN LET hit == FirstHit(F, ExplicitDirs(root, cue_d, wd), flg[1], 0)
         IN  IF hit.out # None
             THEN Res(PathOut(hit.out[1], flg[1]), <<>>, hit.probes)
             ELSE Res(Raise("TypeError"), <<>>, hit.probes)
    ELSE IF ~Has(cd, "FILE")
    THEN Res(Raise("KeyError"), <<>>, 0)
    ELSE LET hit == FirstHit(F, ScanDirs(root, cue_d), cd["FILE"], 0)
         IN  IF hit.out # None
             THEN Res(PathOut(hit.out[1], cd["FILE"]), <<>>, hit.probes)
             ELSE ScanAudio(ord, ScanDirs(root, cue_d), <<>>, hit.probes)

(***************************************************************************)
(* natsorted(pics, key=lambda x: x.stem.lower())                           *)
(***************************************************************************)
\* The characters of file names, in code point order
CodeOrder == " -.0123456789ABCDEFGHIJKLMNOPQRSTUVWXYZ_abcdefghijklmnopqrstuvwxyz"

Code(c) == CHOOSE i \in 1..Len(CodeOrder) : Ch(CodeOrder, i) = c

\* a < b for Python strings
RECURSIVE StrLess(_, _)
StrLess(a, b) ==
    IF Len(b) = 0 THEN FALSE
    ELSE IF Len(a) = 0 THEN TRUE
    ELSE IF Ch(a, 1) # Ch(b, 1) THEN Code(Ch(a, 1)) < Code(Ch(b, 1))
    ELSE StrLess(SubSeq(a, 2, Len(a)), SubSeq(b, 2, Len(b)))

\* natsort's key of a string: text at the odd positions and the numbers of
\* the digit runs at the even positions; an empty text leads when the string
\* starts with a digit.
RECURSIVE NatKey(_, _)
NatKey(s, wantText) ==
    IF Len(s) = 0 THEN <<>>
    ELSE IF wantText
    THEN LET digits == {j \in 1..Len(s) : Ch(s, j) \in Digit}
             e == IF digits = {} THEN Len(s) ELSE SetMin(digits) - 1
         IN  <<SubSeq(s, 1, e)>> \o NatKey(SubSeq(s, e + 1, Len(s)), FALSE)
    ELSE LET e == RunEnd(s, 1, Digit)
         IN  <<ToInt(SubSeq(s, 1, e))>> \o NatKey(SubSeq(s, e + 1, Len(s)), TRUE)

\* k1 < k2 for two such keys (Python's tuple comparison)
RECURSIVE KeyLess(_, _, _)
KeyLess(k1, k2, isText) ==
    IF Len(k2) = 0 THEN FALSE
    ELSE IF Len(k1) = 0 THEN TRUE
    ELSE IF k1[1] # k2[1]
         THEN IF isText THEN StrLess(k1[1], k2[1]) ELSE k1[1] < k2[1]
    ELSE KeyLess(Tail(k1), Tail(k2), ~isText)

CoverKey(x) == NatKey(Lower(Stem(x.name)), TRUE)

CoverLess(x, y) == KeyLess(CoverKey(x), CoverKey(y), TRUE)

\* x inserted into the sorted sequence after every element not greater than it
InsertSorted(sorted, x) ==
    LET after == {i \in 1..Len(sorted) : CoverLess(x, sorted[i])}
        k == IF after = {} THEN Len(sorted) + 1 ELSE SetMin(after)
    IN  SubSeq(sorted, 1, k - 1) \o <<x>> \o SubSeq(sorted, k, Len(sorted))

\* A stable sort of pics by the lower-cased stem compared as plain text
RECURSIVE natsorted_Lexicographic(_)
natsorted_Lexicographic(pics) ==
    IF Len(pics) = 0 THEN <<>>
    ELSE LET sorted == natsorted_Lexicographic(SubSeq(pics, 1, Len(pics) - 1))
             x == pics[Len(pics)]
             after == {i \in 1..Len(sorted) :
                          StrLess(Lower(Stem(x.name)), Lower(Stem(sorted[i].name)))}
             k == IF after = {} THEN Len(sorted) + 1 ELSE SetMin(after)
         IN  SubSeq(sorted, 1, k - 1) \o <<x>> \o SubSeq(sorted, k, Len(sorted))

\* The stable sort of pics by CoverKey
RECURSIVE natsorted(_)
natsorted(pics) ==
    IF Len(pics) = 0 THEN <<>>
    ELSE InsertSorted(natsorted(SubSeq(pics, 1, Len(pics) - 1)), pics[Len(pics)])

(***************************************************************************)
(* determine_cover                                                         *)
(***************************************************************************)
COVER_SUFFIX == {".jpg", ".png", ".tif", ".tiff"}

PRIORITY_COVER_NAMES == {"cover.jpg", "cover.png", "cover.tif", "cover.tiff",
                         "folder.jpg", "folder.png", "folder.tif", "folder.tiff"}

IsPriority_CaseSensitive(name) == name \in PRIORITY_COVER_NAMES

IsPriority(name) == Lower(name) \in PRIORITY_COVER_NAMES

IsImage(x) == x.file /\ Lower(Suffix(x.name)) \in COVER_SUFFIX

CoverDisabled_Never(flg) == FALSE

\* if FLAGS.cover == '': return None
CoverDisabled(flg) == flg = Some("")

\* One "for x in dir.iterdir()" loop: the first priority-named file ends it
\* (hit); otherwise the image files are collected (pics).
ScanCover(listing) ==
    LET prio == {i \in 1..Len(listing) : listing[i].file /\ IsPriority(listing[i].name)}
    IN  IF prio # {}
        THEN [hit |-> Some(listing[SetMin(prio)]),
              pics |-> SelectSeq(SubSeq(listing, 1, SetMin(prio) - 1), IsImage),
              probes |-> SetMin(prio)]
        ELSE [hit |-> None,
              pics |-> SelectSeq(listing, IsImage),
              probes |-> Len(listing)]

\* if len(pics) > 1: natsorted; return None if len(pics) == 0 else pics[0]
BestCover(pics, scans, probes) ==
    LET sorted == IF Len(pics) > 1 THEN natsorted(pics) ELSE pics
    IN  IF Len(pics) = 0 THEN Res(NoneOut, scans, probes)
        ELSE Res(PathOut(sorted[1].dir, sorted[1].name), scans, probes)

\* The scan of the sheet's directory, made when the root scan collected nothing
CoverFromCueDir(cue_d, ord, scans, probes) ==
    LET c == ScanCover(ord[cue_d])
    IN  IF c.hit # None
        THEN Res(PathOut(cue_d, c.hit[1].name), Append(scans, cue_d), probes + c.probes)
        ELSE BestCover(c.pics, Append(scans, cue_d), probes + c.probes)

\* determine_cover without the "if len(pics) == 0" guard of the second loop
determine_cover_AlwaysCueDir(root, cue_d, flg, wd, F, ord) ==
    IF CoverDisabled(flg) THEN Res(NoneOut, <<>>, 0)
    ELSE IF flg # None
    THEN LET hit == FirstHit(F, ExplicitDirs(root, cue_d, wd), flg[1], 0)
         IN  IF hit.out # None
             THEN Res(PathOut(hit.out[1], flg[1]), <<>>, hit.probes)
             ELSE Res(Raise("TypeError"), <<>>, hit.probes)
    ELSE IF root = None THEN CoverFromCueDir(cue_d, ord, <<>>, 0)
    ELSE LET r == ScanCover(ord[root[1]])
             c == ScanCover(ord[cue_d])
         IN  IF r.hit # None
             THEN Res(PathOut(root[1], r.hit[1].name), <<root[1]>>, r.probes)
             ELSE IF c.hit # None
             THEN Res(PathOut(cue_d, c.hit[1].name), <<root[1], cue_d>>,
                      r.probes + c.probes)
             ELSE BestCover(r.pics \o c.pics, <<root[1], cue_d>>, r.probes + c.probes)

determine_cover(root, cue_d, flg, wd, F, ord) ==
    IF CoverDisabled(flg) THEN Res(NoneOut, <<>>, 0)
    ELSE IF flg # None
    THEN LET hit == FirstHit(F, ExplicitDirs(root, cue_d, wd), flg[1], 0)
         IN  IF hit.out # None
             THEN Res(PathOut(hit.out[1], flg[1]), <<>>, hit.probes)
             ELSE Res(Raise("TypeError"), <<>>, hit.probes)
    ELSE IF root = None THEN CoverFromCueDir(cue_d, ord, <<>>, 0)
    ELSE LET r == ScanCover(ord[root[1]])
         IN  IF r.hit # None
             THEN Res(PathOut(root[1], r.hit[1].name), <<root[1]>>, r.probes)
             ELSE IF Len(r.pics) = 0
             THEN CoverFromCueDir(cue_d, ord, <<root[1]>>, r.probes)
             ELSE BestCover(r.pics, <<root[1]>>, r.probes)

(***************************************************************************)
(* Calls of the resolution procedures on a snapshot of the file system     *)
(***************************************************************************)
\* Bound: the number of entries of a snapshot.
MaxFiles == 3

Dirs == {"/in", "/cue", "/pwd"}

\* The entries a snapshot is drawn from, per procedure.  d.cue, d.ape and
\* cover.tif are directories.
CuePool ==
    {Entry("/in", "a.cue", TRUE), Entry("/in", "B.CUE", TRUE),
     Entry("/in", "d.cue", FALSE), Entry("/in", "n.txt", TRUE),
     Entry("/pwd", "a.cue", TRUE)}

WavPool ==
    {Entry("/in", "a.wav", TRUE), Entry("/in", "b.FLAC", TRUE),
     Entry("/in", "n.txt", TRUE), Entry("/in", "d.ape", FALSE),
     Entry("/cue", "a.wav", TRUE), Entry("/cue", "b.FLAC", TRUE),
     Entry("/cue", "c.tta", TRUE), Entry("/pwd", "a.wav", TRUE)}

CoverPool ==
    {Entry("/in", "Folder.JPG", TRUE), Entry("/in", "cover.png", TRUE),
     Entry("/in", "1.jpg", TRUE), Entry("/in", "10.jpg", TRUE),
     Entry("/in", "2.jpg", TRUE), Entry("/in", "1.png", TRUE),
     Entry("/in", "n.txt", TRUE), Entry("/in", "cover.tif", FALSE),
     Entry("/cue", "cover.png", TRUE), Entry("/cue", "2.jpg", TRUE),
     Entry("/pwd", "2.jpg", TRUE)}

Snapshots(pool) == {F \in SUBSET pool : Cardinality(F) <= MaxFiles}

\* The enumeration orders of every directory of a snapshot
AllOrders(F) ==
    {[d \in Dirs |-> IF d = "/in" THEN t[1] ELSE IF d = "/cue" THEN t[2] ELSE t[3]] :
        t \in Orders(Listing(F, "/in")) \X Orders(Listing(F, "/cue"))
                \X Orders(Listing(F, "/pwd"))}

\* The call of procedure p on the current arguments under the orders ord
Call(p, ord) ==
    CASE p = "cue" -> determine_cue(rootdir, flag, cwd, fs, ord)
      [] p = "wav" -> determine_wav(rootdir, cuedir, cue_dict, flag, cwd, fs, ord)
      [] p = "cover" -> determine_cover(rootdir, cuedir, flag, cwd, fs, ord)

Parser0 ==
    /\ pc = "off" /\ heap = <<>> /\ disc_dict = 0 /\ track_list = <<>>
    /\ current_dict = 0 /\ line = "" /\ nlines = 0 /\ override = None

InitCue ==
    /\ proc = "cue"
    /\ fs \in Snapshots(CuePool)
    /\ rootdir \in {None, Some("/in")}
    /\ cuedir = "/in"
    /\ flag \in {None, Some("a.cue"), Some("d.cue")}
    /\ cue_dict = EmptyDict

InitWav ==
    /\ proc = "wav"
    /\ fs \in Snapshots(WavPool)
    /\ rootdir \in {None, Some("/in")}
    /\ cuedir \in Dirs
    /\ flag \in {None, Some("a.wav"), Some("n.txt")}
    /\ cue_dict \in {EmptyDict, [k \in {"FILE"} |-> "a.wav"], [k \in {"FILE"} |-> "d.ape"]}

InitCover ==
    /\ proc = "cover"
    /\ fs \in Snapshots(CoverPool)
    /\ rootdir \in {None, Some("/in")}
    /\ cuedir \in Dirs
    /\ flag \in {None, Some(""), Some("2.jpg")}
    /\ cue_dict = EmptyDict

InitResolve ==
    /\ Parser0
    /\ rpc = "call"
    /\ cwd = "/pwd"
    /\ order = [d \in Dirs |-> <<>>]
    /\ result = <<>>
    /\ (InitCue \/ InitWav \/ InitCover)

\* The procedure runs; iterdir() enumerates each directory in some order.
Determine(p) ==
    /\ rpc = "call"
    /\ \E ord \in AllOrders(fs) :
          /\ result' = Call(p, ord)
          /\ order' = [d \in Dirs |-> IF d \in Range(result'.scans) THEN ord[d] ELSE <<>>]
    /\ rpc' = "done"
    /\ UNCHANGED <<proc, fs, rootdir, cuedir, cwd, flag, cue_dict, pvars>>

DetermineCue == proc = "cue" /\ Determine("cue")

DetermineWav == proc = "wav" /\ Determine("wav")

DetermineCover == proc = "cover" /\ Determine("cover")

NextResolve == DetermineCue \/ DetermineWav \/ DetermineCover

SpecResolve == InitResolve /\ [][NextResolve]_vars

(***************************************************************************)
(* Properties of parse_cue                                                 *)
(***************************************************************************)
Failed == {"failed_line", "failed_track", "failed_title"}

\* The step takes a line (one loop iteration).
TakesLine == pc = "parsing" /\ nlines' = nlines + 1

\* The step takes a line that matches the TRACK grammar.
TakesTrack ==
    TakesLine /\ Matched(line') /\ Key(Strip(line')) = "TRACK"

\* The step takes a TITLE line that is stored (its value is not empty).
TakesTitle ==
    /\ TakesLine /\ Matched(line') /\ Key(Strip(line')) = "TITLE"
    /\ Strip(unquote(Group2(Strip(line')), FALSE)) # ""

Last(seq) == seq[Len(seq)]

\* C1: a TRACK line is accepted only when its number is the number of tracks
\* already created plus one, and then appends exactly one track; any other
\* number aborts the parse; no other step changes the track sequence.  So the
\* i-th track of the sequence was declared with number i.
C1_TrackNumbering ==
    [][ /\ TakesTrack =>
             IF ToInt(Group2(Strip(line'))) = Len(track_list) + 1
             THEN /\ pc' = "parsing"
                  /\ Len(track_list') = ToInt(Group2(Strip(line')))
                  /\ SubSeq(track_list', 1, Len(track_list)) = track_list
             ELSE pc' = "failed_track" /\ track_list' = track_list
        /\ ~TakesTrack => track_list' = track_list
      ]_vars

\* C1 witness: after track 1 was accepted, a repeated "TRACK 01" was refused.
C1_Witness ==
    pc = "failed_track" /\ Strip(line) = "TRACK 01 AUDIO" /\ Len(track_list) = 1

\* C2: a new track record has no TITLE, whatever the disc record holds; a
\* track record gains a TITLE only from a stored TITLE line taken while it is
\* the target; finalization returns exactly when every track has a TITLE and
\* fails otherwise; a stored TITLE is never empty.
C2_TitleRequired ==
    [][ /\ Len(track_list') > Len(track_list) =>
             ~Has(heap'[Last(track_list')], "TITLE")
        /\ \A i \in 1..Len(track_list) :
             (Has(heap'[track_list[i]], "TITLE") /\ ~Has(heap[track_list[i]], "TITLE"))
                => (TakesTitle /\ i = Len(track_list))
        /\ (pc = "parsing" /\ nlines' = nlines) =>
             IF \A i \in 1..Len(track_list) : Has(heap[track_list[i]], "TITLE")
             THEN pc' = "done"
             ELSE pc' = "failed_title"
        /\ pc' = "done" =>
             \A i \in 1..Len(track_list') :
                /\ Has(heap'[track_list'[i]], "TITLE")
                /\ heap'[track_list'[i]]["TITLE"] # ""
      ]_vars

\* C2 witness: finalization failed on a track without TITLE although the disc
\* record has one.
C2_Witness ==
    /\ pc = "failed_title"
    /\ Has(heap[disc_dict], "TITLE")
    /\ Len(track_list) = 1
    /\ ~Has(heap[track_list[1]], "TITLE")

\* C3: the disc record and the track records are pairwise distinct objects; a
\* new track record is the disc record's fields of that moment without TITLE;
\* a step that takes a line changes no record but the target, and the only
\* other change to a record is the TRACK_LIST entry set at finalization.
C3_IndependentRecords ==
    [][ /\ \A i \in 1..Len(track_list') :
             /\ track_list'[i] # disc_dict'
             /\ \A j \in 1..Len(track_list') : track_list'[i] = track_list'[j] => i = j
        /\ Len(track_list') > Len(track_list) =>
             /\ Last(track_list') \notin DOMAIN heap
             /\ heap'[Last(track_list')] = DictDel(heap[disc_dict], "TITLE")
        /\ \A r \in DOMAIN heap :
             heap'[r] # heap[r] =>
                \/ TakesLine /\ r = current_dict /\ current_dict' = current_dict
                \/ /\ pc' = "done" /\ r = disc_dict
                   /\ DictDel(heap'[r], "TRACK_LIST") = heap[r]
      ]_vars

\* C3 witness: PERFORMER "A" at disc level, PERFORMER B inside track 1, and
\* track 2 created afterwards still carries "A", as does the disc record.
C3_Witness ==
    /\ Len(track_list) = 2
    /\ Has(heap[disc_dict], "PERFORMER") /\ heap[disc_dict]["PERFORMER"] = "A"
    /\ Has(heap[track_list[1]], "PERFORMER") /\ heap[track_list[1]]["PERFORMER"] = "B"
    /\ Has(heap[track_list[2]], "PERFORMER") /\ heap[track_list[2]]["PERFORMER"] = "A"

\* The text after "TITLE " of a trimmed TITLE line
TitleText(l) == SubSeq(l, 7, Len(l))

\* The last line taken is a TITLE line whose value is enclosed in a pair of
\* double quotes, and it was stored (the trimmed interior is not empty).
QuotedTitleStored ==
    /\ pc \in {"parsing", "done"}
    /\ Prefix(Strip(line), 6) = "TITLE "
    /\ IsQuoted(Strip(TitleText(Strip(line))))
    /\ Strip(Interior(Strip(TitleText(Strip(line))))) # ""

\* C10: after a TITLE line with a quoted value, the target holds under TITLE
\* the quoted interior without leading/trailing whitespace and under TITLE_RAW
\* the quoted interior verbatim; the value "S " gives TITLE = "S" and
\* TITLE_RAW = "S ".
C10_QuotedTitle ==
    QuotedTitleStored =>
        /\ Has(heap[current_dict], "TITLE") /\ Has(heap[current_dict], "TITLE_RAW")
        /\ heap[current_dict]["TITLE"] = Strip(Interior(Strip(TitleText(Strip(line)))))
        /\ heap[current_dict]["TITLE_RAW"] = Interior(Strip(TitleText(Strip(line))))
        /\ Strip(line) = "TITLE \"S \"" =>
             /\ heap[current_dict]["TITLE"] = "S"
             /\ heap[current_dict]["TITLE_RAW"] = "S "

\* C10 witness: the line TITLE "S " was stored in a track record.
C10_Witness ==
    /\ QuotedTitleStored
    /\ Strip(line) = "TITLE \"S \""
    /\ Len(track_list) = 1 /\ current_dict = track_list[1]
    /\ heap[current_dict]["TITLE_RAW"] = "S "

\* Some record (disc or track) holds the key k.
SomeRecordHas(h, k) == \E r \in DOMAIN h : Has(h[r], k)

\* The step takes a line whose trimmed text starts with "INDEX ".
TakesIndex == TakesLine /\ Prefix(Strip(line'), 6) = "INDEX "

\* C11: no record ever holds the key INDEX; a line with the INDEX prefix that
\* matches the INDEX grammar changes no record, not the track sequence and not
\* the target, and parsing goes on; one that does not match aborts the parse
\* ("INDEX 01 00:00:00" is of the first kind, "INDEX 1 0:0" of the second).
C11_IndexNeverStored ==
    [][ /\ ~SomeRecordHas(heap', "INDEX")
        /\ TakesIndex =>
             IF MatchINDEX(Strip(line')) # None
             THEN /\ pc' = "parsing"
                  /\ UNCHANGED <<heap, track_list, current_dict>>
             ELSE pc' = "failed_line"
        /\ (TakesLine /\ Strip(line') = "INDEX 01 00:00:00") =>
             pc' = "parsing" /\ UNCHANGED <<heap, track_list, current_dict>>
        /\ (TakesLine /\ Strip(line') = "INDEX 1 0:0") => pc' = "failed_line"
      ]_vars

\* C11 witness: a valid INDEX line was taken inside track 1, after its TITLE,
\* and parsing goes on.
C11_Witness ==
    /\ pc = "parsing" /\ Strip(line) = "INDEX 01 00:00:00"
    /\ Len(track_list) = 1 /\ current_dict = track_list[1]
    /\ Has(heap[current_dict], "TITLE")
    /\ ~SomeRecordHas(heap, "INDEX")

\* The step takes a line that matches the generic grammar with key PERFORMER.
TakesPerformer ==
    TakesLine /\ Matched(line') /\ Key(Strip(line')) = "PERFORMER"

\* The value a line carries itself: m[2] unquoted and trimmed.
Parsed(l) == unquote(Group2(l), TRUE)

\* Record r holds value v under key k.
Holds(h, r, k, v) == Has(h[r], k) /\ h[r][k] = v

\* C12 as stated: with an override supplied, a PERFORMER line taken while the
\* track sequence is empty leaves the override string in the disc record; any
\* other PERFORMER line (after a TRACK line, or with no override) leaves its
\* own parsed value in the target.  Lines whose own value is empty are left
\* out of the second half.
C12_PerformerOverride ==
    [][ TakesPerformer =>
          IF override # None /\ Len(track_list) = 0
          THEN Holds(heap', disc_dict, "PERFORMER", override[1])
          ELSE Parsed(Strip(line')) # "" =>
                  Holds(heap', current_dict, "PERFORMER", Parsed(Strip(line')))
      ]_vars

\* C12 amended: the override is stored only when it is not the empty string;
\* with an empty override the disc-level PERFORMER line is skipped and nothing
\* changes.  The rest as stated, and a line whose own value is empty is
\* skipped where the override does not apply.
C12_PerformerOverrideNonEmpty ==
    [][ TakesPerformer =>
          /\ pc' = "parsing"
          /\ IF override # None /\ Len(track_list) = 0
             THEN IF override[1] # ""
                  THEN /\ current_dict = disc_dict
                       /\ Holds(heap', disc_dict, "PERFORMER", override[1])
                  ELSE UNCHANGED <<heap, track_list, current_dict>>
             ELSE IF Parsed(Strip(line')) # ""
                  THEN Holds(heap', current_dict, "PERFORMER", Parsed(Strip(line')))
                  ELSE UNCHANGED <<heap, track_list, current_dict>>
      ]_vars

\* C12 witness: with the override "Z", the disc record holds "Z" and track 1,
\* whose PERFORMER line came after its TRACK line, holds its own value "B".
C12_Witness ==
    /\ override = Some("Z")
    /\ Strip(line) = "PERFORMER B"
    /\ Len(track_list) = 1 /\ current_dict = track_list[1]
    /\ Holds(heap, disc_dict, "PERFORMER", "Z")
    /\ Holds(heap, track_list[1], "PERFORMER", "B")

\* C14: once a track exists, a step that takes a line leaves the disc record
\* as it is and changes no record but the most recently created track, which
\* is the target; the disc record then changes only at finalization, by the
\* TRACK_LIST entry; so every track created after the first starts as the
\* same disc record (without TITLE) the first track was created from.
C14_DiscFrozenAfterTrack ==
    [][ /\ Len(track_list') >= 1 => current_dict' = Last(track_list')
        /\ (Len(track_list) >= 1 /\ TakesLine) =>
             /\ heap'[disc_dict] = heap[disc_dict]
             /\ \A r \in DOMAIN heap : heap'[r] # heap[r] => r = Last(track_list)
             /\ Len(track_list') > Len(track_list) =>
                  /\ heap'[Last(track_list')] = DictDel(heap[disc_dict], "TITLE")
                  /\ \A k \in DOMAIN heap[disc_dict] \ {"TITLE"} :
                        heap'[Last(track_list')][k] = heap'[disc_dict][k]
        /\ (Len(track_list) >= 1 /\ ~TakesLine) =>
             \/ heap'[disc_dict] = heap[disc_dict]
             \/ /\ pc' = "done"
                /\ heap'[disc_dict] = DictSet(heap[disc_dict], "TRACK_LIST", track_list)
      ]_vars

\* C14 witness: a FILE line taken inside track 1 went to track 1; the disc
\* record has no FILE and track 2, created afterwards, has none either.
C14_Witness ==
    /\ pc = "parsing" /\ Len(track_list) = 2
    /\ Has(heap[track_list[1]], "FILE")
    /\ ~Has(heap[disc_dict], "FILE")
    /\ ~Has(heap[track_list[2]], "FILE")

\* The step takes a line that matches its grammar and whose value is empty
\* after unquoting.
TakesEmptyValue ==
    TakesLine /\ Matched(line') /\ Parsed(Strip(line')) = ""

\* C15 as stated: a line whose value is empty after unquoting changes no
\* record, not the track sequence and not the target, and parsing goes on,
\* whatever the key and whatever the override.
C15_EmptyValueSkipped ==
    [][ TakesEmptyValue =>
          pc' = "parsing" /\ UNCHANGED <<heap, track_list, current_dict>>
      ]_vars

\* C15 amended: such a line is skipped, except a PERFORMER line taken while
\* the track sequence is empty with a non-empty override supplied: the
\* override is then stored under PERFORMER in the disc record.
C15_EmptyValueSkippedUnlessOverridden ==
    [][ TakesEmptyValue =>
          /\ pc' = "parsing"
          /\ UNCHANGED <<track_list, current_dict>>
          /\ IF /\ Key(Strip(line')) = "PERFORMER" /\ Len(track_list) = 0
                /\ override # None /\ override[1] # ""
             THEN heap' = HeapPut(heap, disc_dict,
                              DictSet(heap[disc_dict], "PERFORMER", override[1]))
             ELSE heap' = heap
      ]_vars

\* C15 witness: TITLE " " was taken inside track 1, which still has no TITLE,
\* and parsing goes on.
C15_Witness ==
    /\ pc = "parsing" /\ Strip(line) = "TITLE \" \""
    /\ Len(track_list) = 1 /\ current_dict = track_list[1]
    /\ ~Has(heap[current_dict], "TITLE")
    /\ ~Has(heap[current_dict], "TITLE_RAW")

\* k is one of the keys a line can leave in a record.
LineKey(k) ==
    \/ k \in {"FILE", "TITLE", "TITLE_RAW"}
    \/ Prefix(k, 4) = "REM "
    \/ Len(k) > 0 /\ \A i \in 1..Len(k) : Ch(k, i) \in Upper

\* C16: while parsing, and after a failure, no record holds TRACK_LIST; in the
\* returned result the disc record's TRACK_LIST is the track sequence and no
\* track record holds one; every other key of a record is FILE, TITLE,
\* TITLE_RAW, a "REM <NAME>" key or made of upper-case letters only; the line
\* "TRACK_LIST x" aborts the parse.
C16_TrackListReserved ==
    /\ pc # "done" => ~SomeRecordHas(heap, "TRACK_LIST")
    /\ pc = "done" =>
         /\ Holds(heap, disc_dict, "TRACK_LIST", track_list)
         /\ \A i \in 1..Len(track_list) : ~Has(heap[track_list[i]], "TRACK_LIST")
    /\ \A r \in DOMAIN heap : \A k \in DOMAIN heap[r] \ {"TRACK_LIST"} : LineKey(k)
    /\ Strip(line) = "TRACK_LIST x" => pc = "failed_line"

\* C16 witness: a returned result with one track: the disc record carries
\* "REM DATE" from a line and TRACK_LIST from finalization, the track record
\* carries "REM DATE" and no TRACK_LIST.
C16_Witness ==
    /\ pc = "done" /\ Len(track_list) = 1
    /\ Has(heap[disc_dict], "REM DATE")
    /\ Has(heap[track_list[1]], "REM DATE")
    /\ heap[disc_dict]["TRACK_LIST"] = track_list
    /\ ~Has(heap[track_list[1]], "TRACK_LIST")

\* The TITLE and TITLE_RAW entries of a record, None where absent
TitlePair(d) ==
    <<IF Has(d, "TITLE") THEN Some(d["TITLE"]) ELSE None,
      IF Has(d, "TITLE_RAW") THEN Some(d["TITLE_RAW"]) ELSE None>>

\* C17: every record that holds TITLE holds TITLE_RAW, and TITLE is TITLE_RAW
\* without leading/trailing whitespace; the TITLE/TITLE_RAW pair of a record
\* changes only when a stored TITLE line is taken while the record is the
\* target, and then both entries are that line's; a new track record has no
\* TITLE and the disc record's TITLE_RAW, if any.
C17_TitleRawPaired ==
    [][ /\ \A r \in DOMAIN heap' :
             Has(heap'[r], "TITLE") =>
                /\ Has(heap'[r], "TITLE_RAW")
                /\ heap'[r]["TITLE"] = Strip(heap'[r]["TITLE_RAW"])
        /\ \A r \in DOMAIN heap :
             TitlePair(heap'[r]) # TitlePair(heap[r]) =>
                /\ TakesTitle /\ r = current_dict
                /\ TitlePair(heap'[r]) =
                      <<Some(Parsed(Strip(line'))),
                        Some(unquote(Group2(Strip(line')), FALSE))>>
        /\ \A r \in DOMAIN heap' \ DOMAIN heap :
             TitlePair(heap'[r]) = <<None, TitlePair(heap[disc_dict])[2]>>
      ]_vars

\* C17 witness: the disc record holds TITLE "S" with TITLE_RAW "S "; track 1
\* inherited that TITLE_RAW, and its own line TITLE t replaced it: the track
\* holds TITLE "t" with TITLE_RAW "t".
C17_Witness ==
    /\ Len(track_list) = 1
    /\ TitlePair(heap[disc_dict]) = <<Some("S"), Some("S ")>>
    /\ TitlePair(heap[track_list[1]]) = <<Some("t"), Some("t")>>

\* The trimmed line l satisfies the full-line grammar its prefix selects.
Grammatical(l) ==
    IF Prefix(l, 4) = "REM " THEN MatchREM(l) # None
    ELSE IF Prefix(l, 5) = "FILE " THEN MatchFILE(l) # None
    ELSE IF Prefix(l, 6) = "TRACK " THEN MatchTRACK(l) # None
    ELSE IF Prefix(l, 6) = "INDEX " THEN MatchINDEX(l) # None
    ELSE MatchGeneric(l) # None

\* Lines that violate a grammar: a TRACK line of another type, a FILE line
\* without type tag, an INDEX line with a short time, two generic lines whose
\* key is not made of upper-case letters.
BadLines == {"TRACK 01 MODE1", "FILE a.wav", "INDEX 1 0:0", "title x", "TRACK_LIST x"}

\* C19: a blank line changes nothing and parsing goes on; a non-blank trimmed
\* line that violates the grammar its prefix selects (each of BadLines does)
\* makes the parse fail at that line, with the records as they were; a failed
\* parse takes no further step, so it returns no result.
C19_GrammarErrorAborts ==
    [][ /\ pc \notin Failed
        /\ (TakesLine /\ Strip(line') = "") =>
             pc' = "parsing" /\ UNCHANGED <<heap, track_list, current_dict>>
        /\ (TakesLine /\ Strip(line') # "" /\ ~Grammatical(Strip(line'))) =>
             pc' = "failed_line" /\ UNCHANGED <<heap, track_list, current_dict>>
        /\ (TakesLine /\ Strip(line') \in BadLines) => pc' = "failed_line"
        /\ pc' = "failed_line" => (TakesLine /\ ~Grammatical(Strip(line')))
      ]_vars

\* C19 witness: inside track 1, the line "FILE a.wav" (no type tag) made the
\* parse fail.
C19_Witness ==
    /\ pc = "failed_line" /\ Strip(line) = "FILE a.wav"
    /\ Len(track_list) = 1 /\ current_dict = track_list[1]

(***************************************************************************)
(* Properties of the resolution procedures                                 *)
(***************************************************************************)
Returned(p) == rpc = "done" /\ proc = p

\* The files of directory d with a sheet suffix / a recognized audio suffix
CueFiles(d) == {e \in Listing(fs, d) : e.file /\ Lower(Suffix(e.name)) = ".cue"}
AudioFiles(d) == {e \in Listing(fs, d) : e.file /\ Lower(Suffix(e.name)) \in AUDIO_SUFFIX}

\* C4: with no explicit sheet argument, determine_cue returns a path exactly
\* when the root directory holds exactly one .cue file, and fails otherwise
\* (none, or more than one, or no root directory).
C4_ExactlyOneSheet ==
    (Returned("cue") /\ flag = None) =>
        IF rootdir # None /\ Cardinality(CueFiles(rootdir[1])) = 1
        THEN IsPath(result.out)
        ELSE IsRaise(result.out)

\* C5: the outcome of a call is the same under every enumeration order of the
\* directories of the snapshot.
C5_OrderIndependent ==
    rpc = "done" => \A ord \in AllOrders(fs) : Call(proc, ord).out = result.out

\* The declared FILE name is given and is a file in neither the root
\* directory nor the sheet's directory.
DeclaredFileMissing ==
    /\ Has(cue_dict, "FILE")
    /\ rootdir # None => ~IsFile(fs, rootdir[1], cue_dict["FILE"])
    /\ ~IsFile(fs, cuedir, cue_dict["FILE"])

\* The sheet's directory is scanned: no root is given or the root scan found
\* no audio file.
CueDirScanned == rootdir = None \/ AudioFiles(rootdir[1]) = {}

\* C6: with no explicit audio argument and the declared FILE in neither
\* directory, the call fails whenever the scanned directory holds more than
\* one audio file, and a returned path is the only audio file of the
\* directory it was found in.
C6_AmbiguousAudio ==
    (Returned("wav") /\ flag = None /\ DeclaredFileMissing) =>
        /\ (rootdir # None /\ Cardinality(AudioFiles(rootdir[1])) > 1)
              => IsRaise(result.out)
        /\ (CueDirScanned /\ Cardinality(AudioFiles(cuedir)) > 1)
              => IsRaise(result.out)
        /\ IsPath(result.out) =>
              AudioFiles(result.out[2]) = {Entry(result.out[2], result.out[3], TRUE)}

\* C6 witness: two audio files in the root directory, the call raised.
C6_Witness ==
    /\ Returned("wav") /\ flag = None /\ DeclaredFileMissing
    /\ rootdir # None /\ Cardinality(AudioFiles(rootdir[1])) = 2
    /\ IsRaise(result.out)

\* The only element of a set with one element
TheOne(S) == CHOOSE x \in S : TRUE

\* C7: with an explicit audio argument the result is root/arg, else
\* working-directory/arg, else sheet-directory/arg, else a failure, and no
\* directory is enumerated; without one (and with a declared FILE) it is
\* root/FILE, else sheet-directory/FILE, else the unique audio file of the
\* root scan, else the unique audio file of the sheet-directory scan, else a
\* failure (a scan that finds several audio files fails, see C6).
C7_WavPrecedence ==
    Returned("wav") =>
        IF flag # None
        THEN /\ result.scans = <<>>
             /\ result.out =
                  IF rootdir # None /\ IsFile(fs, rootdir[1], flag[1])
                  THEN PathOut(rootdir[1], flag[1])
                  ELSE IF IsFile(fs, cwd, flag[1]) THEN PathOut(cwd, flag[1])
                  ELSE IF IsFile(fs, cuedir, flag[1]) THEN PathOut(cuedir, flag[1])
                  ELSE Raise("TypeError")
        ELSE Has(cue_dict, "FILE") =>
             result.out =
                  IF rootdir # None /\ IsFile(fs, rootdir[1], cue_dict["FILE"])
                  THEN PathOut(rootdir[1], cue_dict["FILE"])
                  ELSE IF IsFile(fs, cuedir, cue_dict["FILE"])
                  THEN PathOut(cuedir, cue_dict["FILE"])
                  ELSE IF rootdir # None /\ Cardinality(AudioFiles(rootdir[1])) = 1
                  THEN PathOut(rootdir[1], TheOne(AudioFiles(rootdir[1])).name)
                  ELSE IF rootdir # None /\ Cardinality(AudioFiles(rootdir[1])) > 1
                  THEN Raise("TypeError")
                  ELSE IF Cardinality(AudioFiles(cuedir)) = 1
                  THEN PathOut(cuedir, TheOne(AudioFiles(cuedir)).name)
                  ELSE Raise("TypeError")

\* C7 witness: the explicit argument is a file in the working directory and in
\* the sheet's directory but not in the root directory; the working directory
\* wins.
C7_Witness ==
    /\ Returned("wav") /\ flag = Some("a.wav")
    /\ rootdir = Some("/in") /\ cuedir = "/cue"
    /\ ~IsFile(fs, "/in", "a.wav") /\ IsFile(fs, "/pwd", "a.wav") /\ IsFile(fs, "/cue", "a.wav")
    /\ result.out = PathOut("/pwd", "a.wav")

\* The priority-named files of directory d
PriorityFiles(d) ==
    {e \in Listing(fs, d) : e.file /\ Lower(e.name) \in PRIORITY_COVER_NAMES}

\* C8: with no explicit cover argument, if the root directory holds a
\* priority-named file, the call returns a priority-named file of the root
\* directory.
C8_PriorityCover ==
    (Returned("cover") /\ flag = None /\ rootdir # None /\ PriorityFiles(rootdir[1]) # {}) =>
        /\ IsPath(result.out)
        /\ Entry(result.out[2], result.out[3], TRUE) \in PriorityFiles(rootdir[1])

\* C8 witness: the root directory holds Folder.JPG and 1.jpg, 1.jpg was
\* enumerated first, and Folder.JPG was returned.
C8_Witness ==
    /\ Returned("cover") /\ flag = None /\ rootdir = Some("/in")
    /\ Len(order["/in"]) = 2
    /\ order["/in"][1].name = "1.jpg" /\ order["/in"][2].name = "Folder.JPG"
    /\ result.out = PathOut("/in", "Folder.JPG")

\* C9: with the cover argument '' the call returns None, enumerates no
\* directory and makes no existence check.
C9_EmptyCoverArgument ==
    (Returned("cover") /\ flag = Some("")) =>
        /\ result.out = NoneOut
        /\ result.scans = <<>>
        /\ result.probes = 0

\* C9 witness: the cover argument is '' although both directories hold a cover.
C9_Witness ==
    /\ Returned("cover") /\ flag = Some("") /\ rootdir = Some("/in") /\ cuedir = "/cue"
    /\ PriorityFiles("/in") # {} /\ PriorityFiles("/cue") # {}
    /\ result.out = NoneOut

\* The image files of directory d
ImageFiles(d) ==
    {e \in Listing(fs, d) : e.file /\ Lower(Suffix(e.name)) \in COVER_SUFFIX}

\* The sheet's directory is enumerated by a call without cover argument: there
\* is no root directory, or the root directory holds no image file.
CoverScansCueDir == rootdir = None \/ ImageFiles(rootdir[1]) = {}

\* The generic candidates such a call collects when no enumerated directory
\* holds a priority-named file
Candidates == IF CoverScansCueDir THEN ImageFiles(cuedir) ELSE ImageFiles(rootdir[1])

NoPriorityFound ==
    /\ rootdir # None => PriorityFiles(rootdir[1]) = {}
    /\ CoverScansCueDir => PriorityFiles(cuedir) = {}

\* C13: with no cover argument, no priority-named file and more than one
\* candidate, the call returns a candidate that no other candidate precedes in
\* the natural order of the lower-cased stems, under every enumeration order;
\* when one candidate precedes all the others, every enumeration order
\* returns it.  Among 1.jpg and 10.jpg it is 1.jpg, among 2.jpg and 10.jpg it
\* is 2.jpg.
C13_NaturalOrderCover ==
    (/\ Returned("cover") /\ flag = None
     /\ NoPriorityFound /\ Cardinality(Candidates) > 1) =>
        /\ IsPath(result.out)
        /\ \E c \in Candidates :
              /\ result.out = PathOut(c.dir, c.name)
              /\ \A o \in Candidates : ~CoverLess(o, c)
              /\ (\A o \in Candidates \ {c} : CoverLess(c, o)) =>
                    \A ord \in AllOrders(fs) : Call("cover", ord).out = result.out
        /\ {c.name : c \in Candidates} = {"1.jpg", "10.jpg"} => result.out[3] = "1.jpg"
        /\ {c.name : c \in Candidates} = {"2.jpg", "10.jpg"} => result.out[3] = "2.jpg"

\* C13 witness: the root directory holds 10.jpg and 2.jpg, 10.jpg was
\* enumerated first, and 2.jpg was returned.
C13_Witness ==
    /\ Returned("cover") /\ flag = None /\ rootdir = Some("/in")
    /\ {c.name : c \in Candidates} = {"2.jpg", "10.jpg"}
    /\ order["/in"][1].name = "10.jpg"
    /\ result.out = PathOut("/in", "2.jpg")

\* C18: with no cover argument the call does not fail; it returns None
\* exactly when neither the root directory (if given) nor the sheet's
\* directory holds an image file; when the root directory holds an image file
\* only the root directory is enumerated and the returned file is an image
\* file of the root directory; otherwise the sheet's directory is enumerated
\* (after the root directory, if given).
C18_CoverOptional ==
    (Returned("cover") /\ flag = None) =>
        /\ ~IsRaise(result.out)
        /\ result.out = NoneOut <=>
              /\ rootdir # None => ImageFiles(rootdir[1]) = {}
              /\ ImageFiles(cuedir) = {}
        /\ IF CoverScansCueDir
           THEN result.scans = ScanDirs(rootdir, cuedir)
           ELSE /\ result.scans = rootdir
                /\ IsPath(result.out)
                /\ Entry(result.out[2], result.out[3], TRUE) \in ImageFiles(rootdir[1])

\* C18 witness: the root directory holds 2.jpg and the sheet's directory the
\* priority-named cover.png; only the root directory was enumerated and 2.jpg
\* of the root directory was returned.
C18_Witness ==
    /\ Returned("cover") /\ flag = None
    /\ rootdir = Some("/in") /\ cuedir = "/cue"
    /\ IsFile(fs, "/in", "2.jpg") /\ IsFile(fs, "/cue", "cover.png")
    /\ result.scans = <<"/in">>
    /\ result.out = PathOut("/in", "2.jpg")

\* C20: a call without audio argument on a disc record without FILE does not
\* fail on the missing field: it enumerates at least one directory, and when
\* the first directory that holds audio files (the root directory if given,
\* else the sheet's directory) holds exactly one, that file is returned.
C20_NoDeclaredFile ==
    (Returned("wav") /\ flag = None /\ ~Has(cue_dict, "FILE")) =>
        /\ result.out # Raise("KeyError")
        /\ Len(result.scans) >= 1
        /\ (rootdir # None /\ Cardinality(AudioFiles(rootdir[1])) = 1) =>
              result.out = PathOut(rootdir[1], TheOne(AudioFiles(rootdir[1])).name)
        /\ (CueDirScanned /\ Cardinality(AudioFiles(cuedir)) = 1) =>
              result.out = PathOut(cuedir, TheOne(AudioFiles(cuedir)).name)

====
